---- MODULE Spec2Model ----
(***************************************************************************)
(* Model of the game server manager (src/app/main.py): the version         *)
(* catalog (latest_tags, min_supported_tag), the fleet registry            *)
(* (containers), the request handler request_game with create_server, and  *)
(* the startup half of lifespan.                                           *)
(*                                                                         *)
(* request_game and lifespan are coroutines without a single await, and    *)
(* every function they call is synchronous: the event loop runs one of     *)
(* them to its end before it starts another.  The model therefore has one  *)
(* control position, pc, and the steps of the running handler are the only *)
(* actions enabled while it runs.  The registry (Docker Hub), the Docker   *)
(* daemon and the operating system are inputs, drawn at each call.         *)
(***************************************************************************)
EXTENDS Integers, Sequences, FiniteSets, TLC

\* ------------------------------------------------------------ constants
MAX_CONTAINER_RETRIES == 10
MAX_RUNNING_SERVERS == 20
MAX_TAGS == 5

\* ------------------------------------------------------------ bounds
\* Containers the daemon starts in one run of the model.
MaxCreated == 21
\* Containers that are found stopped or deleted in one run of the model.
MaxStopped == 2
\* Containers that are gone, or fail to stop, during one shutdown.
MaxGone == 1

\* ------------------------------------------------------------ versions
\* min_supported_tag before the first assignment, and a local that was never set.
None == [none |-> TRUE]

\* The strings a request or a tag carries.
VersionStrings == {"1.1.9", "1.2.0", "1.2.0+b1", "1.3.0", "latest"}

V(ma, mi, pa, b) == [major |-> ma, minor |-> mi, patch |-> pa, build |-> b]

\* semver.Version(s): the parsed version, or None for the ValueError.
ParseVersion(s) ==
    CASE s = "1.1.9" -> V(1, 1, 9, "")
      [] s = "1.2.0" -> V(1, 2, 0, "")
      [] s = "1.2.0+b1" -> V(1, 2, 0, "b1")
      [] s = "1.3.0" -> V(1, 3, 0, "")
      [] OTHER -> None

Versions == {ParseVersion(s) : s \in VersionStrings} \ {None}

\* Version.__lt__: precedence on (major, minor, patch), build metadata ignored.
VersionLt(a, b) ==
    \/ a.major < b.major
    \/ a.major = b.major /\ a.minor < b.minor
    \/ a.major = b.major /\ a.minor = b.minor /\ a.patch < b.patch

VersionGt(a, b) == VersionLt(b, a)

\* Version.__le__ of the library: precedence again.
VersionLe(a, b) == ~VersionLt(b, a)

\* `version in latest_tags`: list membership by Version.__eq__, build included.
InTags(v, tags) == \E i \in 1..Len(tags) : tags[i] = v

\* ------------------------------------------------------------ the registry (Docker Hub)
\* What requests.get and req.json() give get_latest_image_tags:
\*   ok         status 200 and a body with "results", each with a "name"
\*   status     a status other than 200
\*   transport  requests.get raises (no connection, timeout)
\*   malformed  status 200 and a body that is no JSON, or lacks "results"/"name"
TagPages ==
    { <<"1.2.0+b1", "1.2.0">>,
      <<"1.3.0", "latest", "1.2.0">>,
      <<"latest">> }

Responses ==
    [kind : {"ok"}, names : {n \in TagPages : Len(n) <= MAX_TAGS}]
      \cup [kind : {"status", "transport", "malformed"}, names : {<<>>}]

\* The loop of get_latest_image_tags over data["results"]: the parseable names,
\* in order; a name that does not parse is skipped.
RECURSIVE ParseTags_StopAtBad(_)
ParseTags_StopAtBad(names) ==
    IF names = <<>> \/ ParseVersion(Head(names)) = None THEN <<>>
    ELSE <<ParseVersion(Head(names))>> \o ParseTags_StopAtBad(Tail(names))

RECURSIVE ParseTags(_)
ParseTags(names) ==
    IF names = <<>> THEN <<>>
    ELSE IF ParseVersion(Head(names)) = None THEN ParseTags(Tail(names))
    ELSE <<ParseVersion(Head(names))>> \o ParseTags(Tail(names))

\* min_tag of the same loop, started from min_tag = m.
RECURSIVE MinTagFrom_Largest(_, _)
MinTagFrom_Largest(m, tags) ==
    IF tags = <<>> THEN m
    ELSE MinTagFrom_Largest(IF m = None \/ VersionLt(m, Head(tags)) THEN Head(tags) ELSE m,
                            Tail(tags))

RECURSIVE MinTagFrom(_, _)
MinTagFrom(m, tags) ==
    IF tags = <<>> THEN m
    ELSE MinTagFrom(IF m = None \/ VersionGt(m, Head(tags)) THEN Head(tags) ELSE m,
                    Tail(tags))

MinTag(tags) == MinTagFrom(None, tags)

\* get_latest_image_tags on response r with the catalog (tags, m): whether it
\* raises, and the catalog it leaves.
get_latest_image_tags(r, tags, m) ==
    IF r.kind = "transport" THEN [raised |-> TRUE, tags |-> tags, min |-> m]
    ELSE IF r.kind = "status" THEN [raised |-> FALSE, tags |-> tags, min |-> m]
    ELSE IF r.kind = "malformed" THEN [raised |-> TRUE, tags |-> tags, min |-> m]
    ELSE [raised |-> FALSE,
          tags |-> ParseTags(r.names),
          min |-> MinTag(ParseTags(r.names))]

\* ------------------------------------------------------------ the Docker daemon
\* container.reload() and container.status: "missing" is reload() raising.
Oldest(cs, k) == {c \in cs : Cardinality({d \in cs : d < c}) < k}

\* The status reports a reconciliation can get when at most `budget` more
\* containers stop: container ids are opaque to the program, so the ones that
\* stopped are taken to be the oldest.
StatusReports(cs, budget) ==
    UNION { { [c \in cs |-> IF c \in Oldest(cs, k) THEN s[c] ELSE "running"] :
                s \in [Oldest(cs, k) -> {"exited", "missing"}] } :
            k \in 0..(IF budget < Cardinality(cs) THEN budget ELSE Cardinality(cs)) }

\* remove_stopped_containers: the registry it leaves under status report st.
remove_stopped_containers_KeepsAll(cs, st) == cs

remove_stopped_containers_KeepsMissing(cs, st) ==
    {c \in cs : st[c] \in {"running", "missing"}}

remove_stopped_containers(cs, st) == {c \in cs : st[c] = "running"}

\* len(containers) >= MAX_RUNNING_SERVERS
AtCapacity_Strict(n) == n > MAX_RUNNING_SERVERS

AtCapacity_Never(n) == FALSE

AtCapacity(n) == n >= MAX_RUNNING_SERVERS

\* check_images_pulled(image, tags) when pull number f is the first to raise
\* (f = 0: none raises): whether it raises and the pulls it made.
PullInputs(tags) == 0..Len(tags)

check_images_pulled(tags, f) ==
    [raised |-> f > 0, pulled |-> IF f = 0 THEN Len(tags) ELSE f]

\* docker_client.containers.run: a container, or one of the errors it raises.
RunResults == {"ok", "APIError", "ImageNotFound"}

\* docker.errors: ImageNotFound is a NotFound, which is an APIError.
IsInstance(err, class) ==
    \/ err = class
    \/ err = "ImageNotFound" /\ class \in {"NotFound", "APIError"}
    \/ err = "NotFound" /\ class = "APIError"

\* The except clauses of create_server, in their order.
ExceptClause(err) ==
    IF IsInstance(err, "APIError") THEN "retry"
    ELSE IF IsInstance(err, "ImageNotFound") THEN "repull"
    ELSE "propagate"

\* range(MAX_CONTAINER_RETRIES)
InRange_OneMore(attempt) == attempt <= MAX_CONTAINER_RETRIES

InRange(attempt) == attempt < MAX_CONTAINER_RETRIES

\* containers[container.id] = container
Register_Forgets(cs, id) == cs

Register_WrongKey(cs, id) == cs \cup {id + 1}

Register(cs, id) == cs \cup {id}

\* find_free_port: the port the operating system hands out.
Ports == {49152, 49153}

\* docker_client.containers.get(container_id): the container, or the error raised.
LookupResults == {"found", "NotFound", "APIError"}

\* container.stop(): done, or the error raised (NotFound: the container went
\* away after the lookup).
StopResults == {"ok", "NotFound", "APIError"}

\* The except clause of stop_server.
LookupCaught(err) == IsInstance(err, "NotFound")

\* stop_server(container_id) when the lookup gives look and the stop gives
\* stop: whether container.stop() is called and whether stop_server raises.
stop_server(look, stop) ==
    IF look # "found"
    THEN [called |-> FALSE, raised |-> ~LookupCaught(look)]
    ELSE [called |-> TRUE, raised |-> stop # "ok"]

\* ------------------------------------------------------------ the version gate
\* Lines 81-93 of request_game up to the refresh: what the handler does with
\* version v under the catalog (tags, m).
GateDecision_AdmitsUnknown(v, m, tags) ==
    IF m = None THEN "create"
    ELSE IF VersionLt(v, m) THEN "VersionTooOld"
    ELSE IF ~InTags(v, tags) THEN "refresh"
    ELSE "create"

GateDecision_RejectsMinimum(v, m, tags) ==
    IF m = None THEN "TypeError"
    ELSE IF ~VersionLt(m, v) THEN "VersionTooOld"
    ELSE IF ~InTags(v, tags) THEN "refresh"
    ELSE "create"

GateDecision(v, m, tags) ==
    IF m = None THEN "TypeError"
    ELSE IF VersionLt(v, m) THEN "VersionTooOld"
    ELSE IF ~InTags(v, tags) THEN "refresh"
    ELSE "create"

\* ------------------------------------------------------------ state
VARIABLES
    pc,                 \* where the running coroutine stands ("idle": none runs)
    containers,         \* the module's containers dict: the ids it holds
    latest_tags,        \* the module's latest_tags list
    min_supported_tag,  \* the module's min_supported_tag
    created,            \* containers the daemon has started (ids 1..created)
    stopped,            \* containers found stopped or deleted so far
    lastOk,             \* the names of the last response with status 200 and a body
    version,            \* request_game: the parsed version
    attempt,            \* create_server: the loop variable
    port,               \* create_server: the local port
    outcome,            \* how the handler ended ("": it has not)
    result,             \* the port in the handler's answer (0: none)
    handle,             \* the id of the container run returned (0: none)
    allocs,             \* find_free_port calls of this handler
    runs,               \* containers.run calls of this handler
    pulls,              \* images.pull calls of this handler
    refresh,            \* the handler's call of get_latest_image_tags
    arrived,            \* the registry when the handler started
    dead,               \* the containers reload() found stopped or deleted
    before,             \* the registry after remove_stopped_containers
    gate,               \* the catalog as the version gate saw it
    missing,            \* the containers whose reload() raised
    lastErr,            \* create_server: the error of the last failed pass ("": none)
    repulled,           \* create_server: whether that pass ran check_images_pulled
    visited,            \* stop_all_servers: the ids stop_server was called with
    stopCalls,          \* stop_server: the ids container.stop() was called on
    gone,               \* containers found gone or failing to stop at shutdown
    stopError           \* the error that left stop_all_servers ("": none)

vars == <<pc, containers, latest_tags, min_supported_tag, created, stopped, lastOk,
          version, attempt, port, outcome, result, handle, allocs, runs, pulls,
          refresh, arrived, dead, before, gate, missing, lastErr, repulled,
          visited, stopCalls, gone, stopError>>

catalog == <<latest_tags, min_supported_tag, lastOk>>
fleet == <<containers, created, stopped>>
tried == <<lastErr, repulled>>
shutdown == <<visited, stopCalls, gone, stopError>>

NoRefresh == [calls |-> 0, kind |-> "", raised |-> FALSE, tags |-> <<>>, min |-> None]
NoGate == [seen |-> FALSE, min |-> None, tags |-> <<>>]

\* The locals of a handler and what the model records of it, before it runs.
Fresh ==
    /\ version' = None
    /\ attempt' = 0
    /\ port' = 0
    /\ outcome' = ""
    /\ result' = 0
    /\ handle' = 0
    /\ allocs' = 0
    /\ runs' = 0
    /\ pulls' = 0
    /\ refresh' = NoRefresh
    /\ arrived' = {}
    /\ dead' = {}
    /\ before' = {}
    /\ gate' = NoGate
    /\ missing' = {}
    /\ lastErr' = ""
    /\ repulled' = FALSE

Init ==
    /\ pc = "startup"
    /\ containers = {}
    /\ latest_tags = <<>>
    /\ min_supported_tag = None
    /\ created = 0
    /\ stopped = 0
    /\ lastOk = [ok |-> FALSE, names |-> <<>>]
    /\ version = None
    /\ attempt = 0
    /\ port = 0
    /\ outcome = ""
    /\ result = 0
    /\ handle = 0
    /\ allocs = 0
    /\ runs = 0
    /\ pulls = 0
    /\ refresh = NoRefresh
    /\ arrived = {}
    /\ dead = {}
    /\ before = {}
    /\ gate = NoGate
    /\ missing = {}
    /\ lastErr = ""
    /\ repulled = FALSE
    /\ visited = <<>>
    /\ stopCalls = <<>>
    /\ gone = 0
    /\ stopError = ""

\* The call get_latest_image_tags(DOCKER_USER, DOCKER_REPO) answered by r:
\* the catalog it leaves and the record of the call.
CallRefresh(r) ==
    LET got == get_latest_image_tags(r, latest_tags, min_supported_tag) IN
    /\ latest_tags' = got.tags
    /\ min_supported_tag' = got.min
    /\ lastOk' = IF r.kind = "ok" THEN [ok |-> TRUE, names |-> r.names] ELSE lastOk
    /\ refresh' = [calls |-> refresh.calls + 1, kind |-> r.kind, raised |-> got.raised,
                   tags |-> latest_tags, min |-> min_supported_tag]

\* ------------------------------------------------------------ lifespan, startup
\* Line 30.  An exception leaves lifespan: the application does not start.
StartupRefresh ==
    /\ pc = "startup"
    /\ \E r \in Responses :
        /\ CallRefresh(r)
        /\ pc' = IF get_latest_image_tags(r, latest_tags, min_supported_tag).raised
                 THEN "crashed" ELSE "startup_pull"
    /\ UNCHANGED <<fleet, version, attempt, port, outcome, result, handle, allocs,
                   runs, pulls, arrived, dead, before, gate, missing, tried, shutdown>>

\* Lines 31-32.  The application serves once both calls have returned.
StartupPull ==
    /\ pc = "startup_pull"
    /\ \E f \in PullInputs(latest_tags) :
        LET got == check_images_pulled(latest_tags, f) IN
        IF got.raised
        THEN /\ pc' = "crashed"
             /\ pulls' = pulls + got.pulled
             /\ UNCHANGED <<version, attempt, port, outcome, result, handle, allocs,
                            runs, refresh, arrived, dead, before, gate, missing, tried, shutdown>>
        ELSE /\ pc' = "idle"
             /\ Fresh
    /\ UNCHANGED <<catalog, fleet, shutdown>>

\* ------------------------------------------------------------ request_game
\* Lines 65-74: a request arrives with version string s.
Validate ==
    /\ pc = "idle"
    /\ created < MaxCreated
    /\ \E s \in VersionStrings :
        /\ version' = ParseVersion(s)
        /\ IF ParseVersion(s) = None
           THEN pc' = "done" /\ outcome' = "InvalidVersion"
           ELSE pc' = "capacity" /\ outcome' = ""
    /\ arrived' = containers
    /\ UNCHANGED <<catalog, fleet, attempt, port, result, handle, allocs, runs, pulls,
                   refresh, dead, before, gate, missing, tried, shutdown>>

\* Lines 75-80: reconcile, then the capacity check.
CapacityCheck ==
    /\ pc = "capacity"
    /\ \E st \in StatusReports(containers, MaxStopped - stopped) :
        LET kept == remove_stopped_containers(containers, st) IN
        /\ containers' = kept
        /\ before' = kept
        /\ dead' = {c \in containers : st[c] # "running"}
        /\ missing' = {c \in containers : st[c] = "missing"}
        /\ stopped' = stopped + Cardinality({c \in containers : st[c] # "running"})
        /\ IF AtCapacity(Cardinality(kept))
           THEN pc' = "done" /\ outcome' = "CapacityExceeded"
           ELSE pc' = "gate" /\ outcome' = ""
    /\ UNCHANGED <<catalog, created, version, attempt, port, result, handle, allocs,
                   runs, pulls, refresh, arrived, gate, tried, shutdown>>

\* Lines 81-87: the version against the minimum and the supported tags.
VersionGate ==
    /\ pc = "gate"
    /\ gate' = [seen |-> TRUE, min |-> min_supported_tag, tags |-> latest_tags]
    /\ LET d == GateDecision(version, min_supported_tag, latest_tags) IN
        IF d \in {"TypeError", "VersionTooOld"}
        THEN pc' = "done" /\ outcome' = d
        ELSE pc' = d /\ outcome' = ""
    /\ UNCHANGED <<catalog, fleet, version, attempt, port, result, handle, allocs,
                   runs, pulls, refresh, arrived, dead, before, missing, tried, shutdown>>

\* Lines 88-93: the refresh for a version that is not in latest_tags, and the
\* second look at latest_tags.
RequestRefresh ==
    /\ pc = "refresh"
    /\ \E r \in Responses :
        LET got == get_latest_image_tags(r, latest_tags, min_supported_tag) IN
        /\ CallRefresh(r)
        /\ IF got.raised
           THEN pc' = "done" /\ outcome' = "RefreshError"
           ELSE IF ~InTags(version, got.tags)
           THEN pc' = "done" /\ outcome' = "UnsupportedVersion"
           ELSE pc' = "create" /\ outcome' = ""
    /\ UNCHANGED <<fleet, version, attempt, port, result, handle, allocs, runs, pulls,
                   arrived, dead, before, gate, missing, tried, shutdown>>

\* ------------------------------------------------------------ create_server
\* Line 146: the pulls before the loop.
Provision ==
    /\ pc = "create"
    /\ \E f \in PullInputs(latest_tags) :
        LET got == check_images_pulled(latest_tags, f) IN
        /\ pulls' = pulls + got.pulled
        /\ IF got.raised
           THEN pc' = "done" /\ outcome' = "PullError"
           ELSE pc' = "loop" /\ outcome' = ""
    /\ UNCHANGED <<catalog, fleet, version, attempt, port, result, handle, allocs,
                   runs, refresh, arrived, dead, before, gate, missing, tried, shutdown>>

\* Lines 147-175: one pass of the loop.
Attempt ==
    /\ pc = "loop"
    /\ InRange(attempt)
    /\ \E p \in Ports, r \in RunResults, f \in PullInputs(latest_tags) :
        /\ port' = p
        /\ allocs' = allocs + 1
        /\ runs' = runs + 1
        /\ IF r = "ok"
           THEN /\ f = 0
                /\ created' = created + 1
                /\ handle' = created + 1
                /\ containers' = Register(containers, created + 1)
                /\ result' = p
                /\ pc' = "done" /\ outcome' = "Created"
                /\ UNCHANGED <<attempt, pulls, tried>>
           ELSE /\ UNCHANGED <<created, handle, containers, result>>
                /\ lastErr' = r
                /\ repulled' = (ExceptClause(r) = "repull")
                /\ CASE ExceptClause(r) = "retry" ->
                          /\ f = 0
                          /\ attempt' = attempt + 1
                          /\ pc' = "loop" /\ outcome' = ""
                          /\ UNCHANGED pulls
                     [] ExceptClause(r) = "repull" ->
                          LET got == check_images_pulled(latest_tags, f) IN
                          /\ pulls' = pulls + got.pulled
                          /\ attempt' = attempt + 1
                          /\ IF got.raised
                             THEN pc' = "done" /\ outcome' = "PullError"
                             ELSE pc' = "loop" /\ outcome' = ""
                     [] OTHER ->
                          /\ f = 0
                          /\ pc' = "done" /\ outcome' = "RunError"
                          /\ UNCHANGED <<attempt, pulls>>
    /\ UNCHANGED <<catalog, stopped, version, refresh, arrived, dead, before, gate,
                   missing, shutdown>>

\* Lines 176-179: the loop ran out.
Exhausted ==
    /\ pc = "loop"
    /\ ~InRange(attempt)
    /\ pc' = "done"
    /\ outcome' = "LaunchFailed"
    /\ UNCHANGED <<catalog, fleet, version, attempt, port, result, handle, allocs,
                   runs, pulls, refresh, arrived, dead, before, gate, missing, tried, shutdown>>

\* The handler returns or raises; the event loop is free for the next request.
Respond ==
    /\ pc = "done"
    /\ pc' = "idle"
    /\ Fresh
    /\ UNCHANGED <<catalog, fleet, shutdown>>

\* ------------------------------------------------------------ lifespan, shutdown
Range(q) == {q[i] : i \in 1..Len(q)}

\* Lines 33-34 and 190: the server stops while no handler runs.
BeginShutdown ==
    /\ pc = "idle"
    /\ pc' = "shutdown"
    /\ visited' = <<>>
    /\ stopCalls' = <<>>
    /\ UNCHANGED <<catalog, fleet, version, attempt, port, outcome, result, handle,
                   allocs, runs, pulls, refresh, arrived, dead, before, gate, missing,
                   tried, gone, stopError>>

\* Lines 191-192 with stop_server: one pass of the loop over containers.values(),
\* which yields the containers in the order they were stored.
StopNext ==
    /\ pc = "shutdown"
    /\ containers \ Range(visited) # {}
    /\ LET c == CHOOSE x \in containers \ Range(visited) :
                    \A y \in containers \ Range(visited) : x <= y
       IN \E look \in LookupResults, stop \in StopResults :
            LET got == stop_server(look, stop) IN
            /\ look # "found" => stop = "ok"
            /\ (look # "found" \/ stop # "ok") => gone < MaxGone
            /\ gone' = IF look # "found" \/ stop # "ok" THEN gone + 1 ELSE gone
            /\ visited' = Append(visited, c)
            /\ stopCalls' = IF got.called THEN Append(stopCalls, c) ELSE stopCalls
            /\ pc' = IF got.raised THEN "shutdown_failed" ELSE "shutdown"
            /\ stopError' = IF ~got.raised THEN ""
                            ELSE IF look # "found" THEN "get:" \o look
                            ELSE "stop:" \o stop
    /\ UNCHANGED <<catalog, fleet, version, attempt, port, outcome, result, handle,
                   allocs, runs, pulls, refresh, arrived, dead, before, gate, missing,
                   tried>>

\* The loop of stop_all_servers is over: lifespan returns.
ShutdownDone ==
    /\ pc = "shutdown"
    /\ containers \ Range(visited) = {}
    /\ pc' = "stopped"
    /\ UNCHANGED <<catalog, fleet, version, attempt, port, outcome, result, handle,
                   allocs, runs, pulls, refresh, arrived, dead, before, gate, missing,
                   tried, shutdown>>

Next ==
    \/ StartupRefresh
    \/ StartupPull
    \/ Validate
    \/ CapacityCheck
    \/ VersionGate
    \/ RequestRefresh
    \/ Provision
    \/ Attempt
    \/ Exhausted
    \/ Respond
    \/ BeginShutdown
    \/ StopNext
    \/ ShutdownDone

Spec == Init /\ [][Next]_vars

\* ------------------------------------------------------------ claims
\* The handler has passed the capacity check of lines 75-80.
PastCapacity ==
    /\ pc \in {"gate", "refresh", "create", "loop", "done"}
    /\ outcome # "InvalidVersion"

\* The handler has called create_server.
InCreateServer ==
    \/ pc \in {"create", "loop"}
    \/ pc = "done" /\ outcome \in {"PullError", "Created", "LaunchFailed", "RunError"}

\* C1: a handler that has made a run attempt and has left create_server
\* without a container has made exactly MAX_CONTAINER_RETRIES run attempts,
\* one port allocation for each, has failed with LaunchFailed, and has left
\* the registry as it was before the loop; no handler makes more attempts.
C1_RetryExhaustion ==
    /\ runs <= MAX_CONTAINER_RETRIES
    /\ allocs = runs
    /\ (pc = "done" /\ runs > 0 /\ handle = 0) =>
          /\ outcome = "LaunchFailed"
          /\ runs = MAX_CONTAINER_RETRIES
          /\ containers = before

C1_Witness ==
    /\ pc = "done"
    /\ outcome = "LaunchFailed"
    /\ runs = MAX_CONTAINER_RETRIES
    /\ before # {}

\* C2: a handler whose attempt N succeeds after N-1 failed attempts has made
\* exactly N run attempts and N port allocations, has added exactly one
\* session, keyed by the handle that attempt returned, and answers with the
\* port allocated in that attempt.
C2_RetrySuccess ==
    (pc = "done" /\ outcome = "Created") =>
        /\ runs = attempt + 1
        /\ runs <= MAX_CONTAINER_RETRIES
        /\ allocs = runs
        /\ handle \notin before
        /\ containers = before \cup {handle}
        /\ result = port
        /\ result \in Ports

C2_Witness ==
    /\ pc = "done"
    /\ outcome = "Created"
    /\ attempt = MAX_CONTAINER_RETRIES - 1
    /\ runs = MAX_CONTAINER_RETRIES
    /\ containers = before \cup {handle}

\* C3: when the registry holds MAX_RUNNING_SERVERS sessions or more after the
\* reconciliation, the request fails with CapacityExceeded, whatever its
\* version and the catalog, without a refresh, a pull, a port allocation, a
\* run or a registration.
C3_CapacityRejection ==
    (PastCapacity /\ Cardinality(before) >= MAX_RUNNING_SERVERS) =>
        /\ pc = "done"
        /\ outcome = "CapacityExceeded"
        /\ refresh.calls = 0
        /\ pulls = 0
        /\ allocs = 0
        /\ runs = 0
        /\ handle = 0
        /\ ~gate.seen
        /\ containers = before

C3_Witness ==
    /\ pc = "done"
    /\ outcome = "CapacityExceeded"
    /\ Cardinality(before) = MAX_RUNNING_SERVERS
    /\ min_supported_tag # None
    /\ VersionLt(version, min_supported_tag)

\* C4: a request that arrives at a registry of MAX_RUNNING_SERVERS sessions of
\* which one at least is stopped or deleted is not rejected with
\* CapacityExceeded, and when its creation succeeds the new session is in the
\* registry; a rejection with CapacityExceeded is always taken on the
\* reconciled registry.
C4_ReconcileBeforeAdmission ==
    /\ (PastCapacity /\ Cardinality(arrived) = MAX_RUNNING_SERVERS /\ dead # {}) =>
          /\ outcome # "CapacityExceeded"
          /\ outcome = "Created" => handle \in containers
    /\ (PastCapacity /\ outcome = "CapacityExceeded") =>
          Cardinality(arrived \ dead) >= MAX_RUNNING_SERVERS

C4_Witness ==
    /\ pc = "done"
    /\ outcome = "Created"
    /\ Cardinality(arrived) = MAX_RUNNING_SERVERS
    /\ dead # {}
    /\ handle \in containers

\* C5: with a minimum in the catalog and capacity left, a request whose
\* version is below the minimum fails with VersionTooOld without a refresh, a
\* pull or a run, and a request whose version is the minimum passes the gate
\* without a refresh and reaches create_server.
C5_VersionGateMinimum ==
    (gate.seen /\ gate.min # None) =>
        /\ VersionLt(version, gate.min) =>
              /\ pc = "done"
              /\ outcome = "VersionTooOld"
              /\ refresh.calls = 0
              /\ pulls = 0
              /\ runs = 0
              /\ containers = before
        /\ version = gate.min =>
              /\ InCreateServer
              /\ refresh.calls = 0

C5_Witness ==
    /\ pc = "done"
    /\ outcome = "VersionTooOld"
    /\ gate.seen
    /\ gate.min # None
    /\ VersionLt(version, gate.min)
    /\ Cardinality(before) < MAX_RUNNING_SERVERS

\* C6: a request whose version is in the supported set makes no refresh; one
\* whose version is not below the minimum (an absent minimum has nothing
\* below it) and not in the supported set makes exactly one refresh, then
\* reaches create_server if the version is supported after it and otherwise
\* fails with UnsupportedVersion without a run; no request makes two.
C6_SingleRefresh ==
    /\ refresh.calls <= 1
    /\ (gate.seen /\ pc \in {"create", "loop", "done"}) =>
          /\ InTags(version, gate.tags) => refresh.calls = 0
          /\ ( /\ ~(gate.min # None /\ VersionLt(version, gate.min))
               /\ ~InTags(version, gate.tags) ) =>
                 /\ refresh.calls = 1
                 /\ IF InTags(version, latest_tags)
                    THEN InCreateServer
                    ELSE pc = "done" /\ outcome = "UnsupportedVersion" /\ runs = 0

\* C7: a version is supported exactly when it is among the parseable names of
\* the last successful refresh; before the first one no version is.
C7_SupportedIsLastRefresh ==
    \A v \in Versions :
        InTags(v, latest_tags) <=>
            /\ lastOk.ok
            /\ \E i \in 1..Len(lastOk.names) : ParseVersion(lastOk.names[i]) = v

C7_Witness ==
    /\ refresh.calls = 1
    /\ refresh.kind = "status"
    /\ lastOk.ok
    /\ lastOk.names = <<"1.3.0", "latest", "1.2.0">>
    /\ InTags(V(1, 2, 0, ""), latest_tags)
    /\ ~InTags(V(1, 2, 0, "b1"), latest_tags)

\* C8: a refresh that fails, in any of the three ways, returns to its caller
\* without an exception and leaves the supported set and the minimum as they
\* were.
C8_FailedRefreshContained ==
    (refresh.calls > 0 /\ refresh.kind \in {"transport", "status", "malformed"}) =>
        /\ ~refresh.raised
        /\ latest_tags = refresh.tags
        /\ min_supported_tag = refresh.min

\* C9 as claimed: the minimum is absent exactly when no refresh has succeeded,
\* and otherwise it is in the supported set and not above any member.
C9_MinimumAbsentIffNeverRefreshed ==
    /\ min_supported_tag = None <=> ~lastOk.ok
    /\ min_supported_tag # None =>
          /\ InTags(min_supported_tag, latest_tags)
          /\ \A i \in 1..Len(latest_tags) : VersionLe(min_supported_tag, latest_tags[i])

\* C9 as amended: the minimum is absent exactly when the supported set is
\* empty, which it is before the first successful refresh; otherwise it is in
\* the supported set and not above any member, in every state a handler sees.
C9_CatalogConsistency ==
    /\ min_supported_tag = None <=> latest_tags = <<>>
    /\ ~lastOk.ok => min_supported_tag = None
    /\ min_supported_tag # None =>
          /\ InTags(min_supported_tag, latest_tags)
          /\ \A i \in 1..Len(latest_tags) : VersionLe(min_supported_tag, latest_tags[i])

C9_Witness ==
    /\ pc = "create"
    /\ refresh.calls = 1
    /\ refresh.kind = "ok"
    /\ refresh.min # None
    /\ min_supported_tag # None
    /\ refresh.min # min_supported_tag
    /\ refresh.tags # latest_tags

\* C10: a request that finds the minimum absent at the version gate, and
\* leaves it absent, makes no pull, no run attempt and registers no session.
C10_NoAdmissionWithoutCatalog ==
    (gate.seen /\ gate.min = None /\ min_supported_tag = None) =>
        /\ pc = "done"
        /\ pulls = 0
        /\ allocs = 0
        /\ runs = 0
        /\ handle = 0
        /\ containers = before

C10_Witness ==
    /\ pc = "done"
    /\ gate.seen
    /\ gate.min = None
    /\ min_supported_tag = None
    /\ lastOk.ok
    /\ outcome = "TypeError"

\* The number of times id c occurs in sequence q.
Occurrences(q, c) == Cardinality({i \in 1..Len(q) : q[i] = c})

\* C11: after a shutdown in which the daemon answered every call, or answered
\* that the container is gone, container.stop() has been called exactly once
\* on every session that was in the registry, those whose container is gone
\* included.
C11_ShutdownCompleteness ==
    (pc \in {"stopped", "shutdown_failed"}
        /\ stopError \notin {"get:APIError", "stop:APIError"}) =>
        \A c \in containers : Occurrences(stopCalls, c) = 1

\* C12: a pull that fails in the provisioning step of create_server does not
\* end the request there: the handler goes on to the creation loop.
C12_ProvisioningNotFatal ==
    ~(pc = "done" /\ outcome = "PullError" /\ runs = 0 /\ pulls > 0)

\* C13: a pass of the creation loop that failed with ImageNotFound ran
\* check_images_pulled before the next pass, and a pass that failed with
\* another APIError ran no pull.
C13_RepullOnMissingImage ==
    /\ lastErr = "ImageNotFound" => repulled
    /\ lastErr = "APIError" => ~repulled

\* C14: startup never ends because a pull failed: after the refresh returned,
\* the pulls are all attempted and the application serves.
C14_StartupBestEffort ==
    pc = "crashed" => refresh.raised

\* C15: a session is registered only when the registry held fewer than
\* MAX_RUNNING_SERVERS sessions, and the registry never holds more.
C15_CapacityBound ==
    /\ Cardinality(containers) <= MAX_RUNNING_SERVERS
    /\ (pc = "done" /\ outcome = "Created") =>
          /\ Cardinality(before) < MAX_RUNNING_SERVERS
          /\ containers = before \cup {handle}

C15_Witness ==
    /\ pc = "done"
    /\ outcome = "Created"
    /\ Cardinality(before) = MAX_RUNNING_SERVERS - 1
    /\ Cardinality(containers) = MAX_RUNNING_SERVERS
    /\ dead = {}

\* C16: after the reconciliation the registry holds exactly the sessions
\* tracked before it whose reload() reported "running": those reported in
\* another status and those whose reload() raised are removed, none is added.
C16_ReconcileExact ==
    PastCapacity =>
        /\ missing \subseteq dead
        /\ dead \subseteq arrived
        /\ before = arrived \ dead
        /\ pc = "gate" => containers = before

C16_Witness ==
    /\ pc = "gate"
    /\ missing # {}
    /\ dead \ missing # {}
    /\ before # {}
    /\ containers = arrived \ dead

\* C17: the below-minimum check gives true exactly when the minimum is present
\* and the version is below it, and never raises: with the minimum absent the
\* handler does not end in TypeError.
C17_BelowMinimumTotal ==
    gate.seen =>
        /\ outcome # "TypeError"
        /\ outcome = "VersionTooOld" <=>
              (gate.min # None /\ VersionLt(version, gate.min))

\* C18: every key of the registry is the id of a container that run returned
\* to this program, and a handler that got a container from run ends with it
\* in the registry; a handler that got none has started none.
C18_RegistryOwnership ==
    /\ containers \subseteq 1..created
    /\ pc \in {"capacity", "gate", "refresh", "create", "loop"} => handle = 0
    /\ pc = "done" =>
          /\ handle # 0 <=> outcome = "Created"
          /\ handle # 0 => (handle = created /\ handle \in containers)
          /\ handle = 0 => containers \subseteq arrived

C18_Witness ==
    /\ pc = "done"
    /\ outcome = "Created"
    /\ handle = created
    /\ handle \in containers
    /\ stopped > 0
    /\ Cardinality(containers) < created

\* C19: every request ends, after at most one refresh and at most
\* MAX_CONTAINER_RETRIES run attempts, in success or in one of InvalidVersion,
\* CapacityExceeded, VersionTooOld, UnsupportedVersion, LaunchFailed.
C19_DeclaredOutcomes ==
    /\ refresh.calls <= 1
    /\ runs <= MAX_CONTAINER_RETRIES
    /\ pc = "done" =>
          outcome \in {"Created", "InvalidVersion", "CapacityExceeded",
                       "VersionTooOld", "UnsupportedVersion", "LaunchFailed"}

\* C20: a container that is gone, at the lookup or between the lookup and the
\* stop, raises no error out of shutdown, and shutdown visits every session.
C20_ShutdownToleratesMissing ==
    /\ stopError \notin {"get:NotFound", "stop:NotFound"}
    /\ pc = "stopped" => Range(visited) = containers

====
